---- MODULE Spec2Model ----
(***************************************************************************)
(* api-consentimentos (src/api-consentimentos/app.py): the consent ledger  *)
(* with crypto-shredding.  Every HTTP request is served by a worker with   *)
(* its own SQLAlchemy session; the workers share the tables users_crypto   *)
(* and consents.  A handler is cut into steps at its SQL statements, so    *)
(* that requests interleave the way concurrent workers interleave them.    *)
(***************************************************************************)
EXTENDS Integers, Sequences, FiniteSets, TLC

\* The field names of the records below: request headers and bodies, table
\* rows, handler frames and responses.
FieldNames ==
    DOMAIN [body |-> 0, channel |-> 0, claims |-> 0, consent |-> 0, content |-> 0,
            created_at |-> 0, current_user_id |-> 0, data |-> 0, error |-> 0,
            expired |-> 0, fields |-> 0, filename |-> 0, hash_sha256 |-> 0, header |-> 0,
            id |-> 0, id_policy |-> 0, id_user |-> 0, iss |-> 0, jwt_token |-> 0,
            kind |-> 0, message |-> 0, ok |-> 0, op |-> 0, parameters |-> 0, pc |-> 0,
            policy |-> 0, policy_id |-> 0, policy_info |-> 0, resp |-> 0, s3_url |-> 0,
            secret_key |-> 0, sig |-> 0, status |-> 0, subject_pseudonym |-> 0,
            timestamp |-> 0, token |-> 0, user_id |-> 0, validation_hash |-> 0,
            version |-> 0]

\* ---------------------------------------------------------------- bounds
MaxRequests == 2        \* requests received in one run
MaxClock == 1           \* latest reading of the wall clock

\* ---------------------------------------------------------------- inputs
Workers == {1, 2}                       \* concurrent request handlers
Users == {1, 2}                         \* subject ids
Keys == {"k1", "k2"}                    \* values secrets.token_hex(32) may return
PolicyIds == {1, 2}                     \* policy ids a request may name
StoredPolicies == {1}                   \* rows of the policies table

NoRow == "<norow>"                      \* no users_crypto row for the subject
NULL == "<null>"                        \* users_crypto.secret_key IS NULL
None == "<none>"                        \* Python None / unset local
NoUser == 0                             \* no subject id read yet (ids start at 1)
NoTime == -1                            \* datetime.utcnow() not read yet
NoBody == [fields |-> {}]               \* no JSON body (or one not read)

IdP == "poc-mestrado-idp"

\* Authorization headers a caller may send.  A bearer token is described by
\* what jwt.decode finds: its signature, its expiry and its claims.
Token(sig, expired, claims, uid, iss) ==
    [claims |-> claims, expired |-> expired, iss |-> iss, kind |-> "bearer",
     sig |-> sig, user_id |-> uid]
AllClaims == {"user_id", "exp", "iat", "iss"}
NoHeader == [kind |-> "absent"]
BadScheme == [kind |-> "malformed"]
Headers ==
    { NoHeader, BadScheme,
      Token("bad", FALSE, AllClaims, 1, IdP),               \* forged signature
      Token("good", TRUE, AllClaims, 1, IdP),               \* expired
      Token("good", FALSE, AllClaims \ {"user_id"}, 1, IdP),\* signed, no user_id claim
      Token("good", FALSE, AllClaims, 2, "other-idp"),      \* shared secret, other issuer
      Token("good", FALSE, AllClaims, 1, IdP),
      Token("good", FALSE, AllClaims, 2, IdP) }

\* What a frame holds in place of the header once the decorator accepted it,
\* and when the view has no decorator.
Verified == [kind |-> "verified"]
Unread == [kind |-> "unread"]

\* JSON bodies of POST /consents: the fields present and their values.
AllFields == {"id_user", "id_policy", "channel", "status"}
Body(u, p, c, s) ==
    [channel |-> c, fields |-> AllFields, id_policy |-> p, id_user |-> u, status |-> s]
Without(data, f) == [data EXCEPT !.fields = @ \ {f}]
FullBodies ==
    { Body(1, 1, "web", "given"), Body(1, 1, "web", "revoked"), Body(1, 2, "web", "given"),
      Body(2, 1, "web", "given"), Body(2, 2, "web", "given") }
Bodies ==
    FullBodies \cup
    { [Body(1, 1, "web", "given") EXCEPT !.fields = {}] } \cup
    { Without(Body(2, 1, "web", "given"), f) : f \in AllFields }

\* ----------------------------------------------------------------- state
VARIABLES
    users_crypto,   \* table users_crypto: id_user -> NoRow | NULL | key
    consents,       \* table consents: sequence of rows, in insertion order
    worker,         \* per worker: the frame of the handler it runs, or Idle
    clock,          \* the latest value datetime.utcnow() returned
    admitted,       \* requests received so far
    returned,       \* the frame, with its response, of the handler that returned
                    \* in the step just taken; Idle when that step returned nothing
    session,        \* smart-chatbot: the Flask session cookie the browser holds
    policies,       \* api-politicas: table policies, in insertion order
    bucket          \* api-politicas: names of the objects in the S3 bucket

vars ==
    <<users_crypto, consents, worker, clock, admitted, returned, session, policies,
      bucket>>

\* What the views of one service leave alone: the state of the other two.
consent_vars == <<users_crypto, consents, clock>>
chat_vars == <<session>>
policy_vars == <<policies, bucket>>

Idle == [pc |-> "idle"]

\* The session cookie: empty, or what login stores in it (42-43 of
\* smart-chatbot).  An empty session has no token and no user id.
NoToken == [kind |-> "absent"]
NoSession == [jwt_token |-> NoToken, user_id |-> NoUser]
NoResponse == [body |-> [kind |-> "pending"], status |-> 0]

\* ------------------------------------------------------- pure functions

\* token_required: the decorator's verdict on an Authorization header.
\* jwt.decode checks the signature, then exp; no issuer is required.
\* data['user_id'] on a token without the claim raises KeyError, which
\* neither except clause catches: the framework answers 500.
token_required(h) ==
    IF h.kind # "bearer"
        THEN [error |-> "Token de autenticacao ausente", ok |-> FALSE, status |-> 401]
    ELSE IF h.sig # "good"
        THEN [error |-> "Token invalido", ok |-> FALSE, status |-> 401]
    ELSE IF h.expired
        THEN [error |-> "Token expirado", ok |-> FALSE, status |-> 401]
    ELSE IF "user_id" \notin h.claims
        THEN [error |-> "Internal Server Error", ok |-> FALSE, status |-> 500]
    ELSE [current_user_id |-> h.user_id, ok |-> TRUE]

\* generate_pseudonym: HMAC-SHA256 keyed by secret_key over str(user_id).
generate_pseudonym(user_id, secret_key) ==
    "hmac(" \o secret_key \o "," \o ToString(user_id) \o ")"

\* The f-string hashed into validation_hash.
hash_input(subject_pseudonym, id_policy, timestamp, channel, status) ==
    subject_pseudonym \o ":" \o ToString(id_policy) \o ":" \o ToString(timestamp)
        \o ":" \o channel \o ":" \o status

sha256(s) == "sha256(" \o s \o ")"

\* Policies.to_json_brief of the policy a consent row refers to.
to_json_brief(id_policy) ==
    IF id_policy \in StoredPolicies THEN [id |-> id_policy] ELSE [id |-> 0]

\* Consents.to_json
to_json(c) ==
    [channel |-> c.channel, created_at |-> c.created_at, id |-> c.id,
     id_policy |-> c.id_policy, policy_info |-> to_json_brief(c.id_policy),
     status |-> c.status, subject_pseudonym |-> c.subject_pseudonym,
     validation_hash |-> c.validation_hash]

\* Faulty variant of Incomplete: the field check left out.
NeverIncomplete(data) == FALSE

\* "not data or 'id_user' not in data or ..." of create_consent
Incomplete(data) ==
    \/ data.fields = {}
    \/ "id_user" \notin data.fields
    \/ "id_policy" \notin data.fields
    \/ "channel" \notin data.fields
    \/ "status" \notin data.fields

\* ------------------------------------------------------ handler helpers

\* Faulty variant of IdentityMismatch: the check of lines 111, 153, 181 left out.
NeverMismatch(requested, current_user_id) == FALSE

\* "if int(data['id_user']) != int(current_user_id)" and its two siblings.
IdentityMismatch(requested, current_user_id) == requested # current_user_id

\* Faulty variant of Erased: "if not user.secret_key" left out.
NeverErased(secret_key) == FALSE

\* "if not user.secret_key": the key of a loaded row is NULL.
Erased(secret_key) == secret_key = NULL

\* Faulty variant of HashTaken: validation_hash without unique=True.
NeverTaken(rows, h) == FALSE

\* The UNIQUE constraint on consents.validation_hash, seen by an INSERT.
HashTaken(rows, h) == \E i \in 1..Len(rows) : rows[i].validation_hash = h

\* Faulty variant of RowExists: the lookup never finds the row and the INSERT
\* replaces it (an upsert).
NeverExists(tbl, u) == FALSE

\* Faulty variant of RowExists: a row whose key is NULL counts as no row.
RowHasKey(tbl, u) == tbl[u] \notin {NoRow, NULL}

\* A row of this primary key is stored: what db.session.get finds, and what
\* the PRIMARY KEY constraint on users_crypto.id_user refuses to INSERT over.
RowExists(tbl, u) == tbl[u] # NoRow

Response(status, body) == [body |-> body, status |-> status]
Error(text) == [error |-> text]
Message(text) == [message |-> text]

\* The frame of a handler: the view, the statement it stands at, what it has
\* read of the request (the header until the decorator has verified it, then
\* the identity the decorator injects), its locals and its response.
Handler(op, pc, h, cur, uid, data, resp) ==
    [pc |-> pc, current_user_id |-> cur, data |-> data, header |-> h, op |-> op,
     resp |-> resp, secret_key |-> None, timestamp |-> NoTime, user_id |-> uid]

\* The server hands a request to the first free worker, which runs the
\* handler up to its first SQL statement, or to its return when it answers
\* before any.
Free(w) == worker[w] = Idle

Receive(w, f) ==
    /\ Free(w)
    /\ \A v \in Workers : v < w => ~Free(v)
    /\ admitted < MaxRequests
    /\ admitted' = admitted + 1
    /\ IF f.resp.status # NoResponse.status
           THEN returned' = f /\ UNCHANGED worker
           ELSE returned' = Idle /\ worker' = [worker EXCEPT ![w] = f]
    /\ UNCHANGED <<consent_vars, chat_vars, policy_vars>>

\* The handler returns a response from the statement it stands at; its
\* worker is free again.
Finish(w, status, body) ==
    /\ returned' = [worker[w] EXCEPT !.resp = Response(status, body)]
    /\ worker' = [worker EXCEPT ![w] = Idle]

\* The handler goes on to its next statement with the frame f.
Continue(w, f) ==
    /\ worker' = [worker EXCEPT ![w] = f]
    /\ returned' = Idle

Goto(w, pc) == Continue(w, [worker[w] EXCEPT !.pc = pc])

At(w, op, pc) == worker[w].pc = pc /\ worker[w].op = op

\* ------------------------------------------------- POST /consents

\* POST /consents arrives: decorator, field presence, identity check
\* (26-50, 105-112).  Nothing shared is read before the first query.
create_consent(w) ==
    LET op == "create_consent" IN
    \E h \in Headers :
        LET auth == token_required(h) IN
        IF ~auth.ok
            THEN Receive(w, Handler(op, "start", h, NoUser, NoUser, NoBody,
                                    Response(auth.status, Error(auth.error))))
            ELSE \E data \in Bodies :
                Receive(w,
                  IF Incomplete(data)
                      THEN Handler(op, "start", Verified, auth.current_user_id, NoUser, data,
                                   Response(400, Error("Dados incompletos")))
                  ELSE IF IdentityMismatch(data.id_user, auth.current_user_id)
                      THEN Handler(op, "start", Verified, auth.current_user_id,
                                   data.id_user, data,
                                   Response(403, Error("Conflito de Identidade")))
                  ELSE Handler(op, "get_user", Verified, auth.current_user_id,
                               data.id_user, data, NoResponse))

\* Faulty variant of create_consent_get_user: "if not user" left out, a key
\* row is created on every POST.
create_consent_always_insert(w) ==
    /\ At(w, "create_consent", "get_user")
    /\ Goto(w, "insert_user")
    /\ UNCHANGED <<users_crypto, consents, clock, admitted>>
    /\ UNCHANGED <<chat_vars, policy_vars>>

\* user = db.session.get(UserCrypto, id_user); "if not user.secret_key" (120, 126).
create_consent_get_user(w) ==
    /\ At(w, "create_consent", "get_user")
    /\ LET row == users_crypto[worker[w].current_user_id] IN
       IF ~RowExists(users_crypto, worker[w].current_user_id)
           THEN Goto(w, "insert_user")
       ELSE IF Erased(row)
           THEN Finish(w, 403, Error("Titular anonimizado"))
       ELSE Continue(w, [worker[w] EXCEPT !.pc = "get_policy", !.secret_key = row])
    /\ UNCHANGED <<users_crypto, consents, clock, admitted>>
    /\ UNCHANGED <<chat_vars, policy_vars>>

\* db.session.add(UserCrypto(id_user)); db.session.commit() (121-124).  The
\* column default draws the key; a row inserted meanwhile violates the primary
\* key, the except clause rolls back and echoes the exception, which prints the
\* statement's parameters.
create_consent_insert_user(w) ==
    /\ At(w, "create_consent", "insert_user")
    /\ LET u == worker[w].current_user_id IN
       \E k \in Keys :
          IF RowExists(users_crypto, u)
              THEN /\ Finish(w, 500, [error |-> "Erro interno",
                                      parameters |-> <<ToString(u), k>>])
                   /\ UNCHANGED users_crypto
              ELSE /\ users_crypto' = [users_crypto EXCEPT ![u] = k]
                   /\ Goto(w, "refresh_user")
    /\ UNCHANGED <<consents, clock, admitted>>
    /\ UNCHANGED <<chat_vars, policy_vars>>

\* user.secret_key after the commit: the expired instance is reloaded (126).
create_consent_refresh_user(w) ==
    /\ At(w, "create_consent", "refresh_user")
    /\ LET row == users_crypto[worker[w].current_user_id] IN
       IF Erased(row)
           THEN Finish(w, 403, Error("Titular anonimizado"))
           ELSE Continue(w, [worker[w] EXCEPT !.pc = "get_policy", !.secret_key = row])
    /\ UNCHANGED <<users_crypto, consents, clock, admitted>>
    /\ UNCHANGED <<chat_vars, policy_vars>>

\* policy_exists = db.session.get(Policies, id_policy); timestamp =
\* datetime.utcnow() (131-135).  The policies table does not change, so the
\* lookup and the clock reading are one step; the clock never runs backwards.
create_consent_get_policy(w) ==
    /\ At(w, "create_consent", "get_policy")
    /\ IF worker[w].data.id_policy \notin StoredPolicies
           THEN Finish(w, 404, Error("Politica nao encontrada")) /\ UNCHANGED clock
           ELSE \E now \in clock..MaxClock :
                   /\ clock' = now
                   /\ Continue(w, [worker[w] EXCEPT !.pc = "insert_consent",
                                                      !.timestamp = now])
    /\ UNCHANGED <<users_crypto, consents, admitted>>
    /\ UNCHANGED <<chat_vars, policy_vars>>

\* The row create_consent builds from its locals (129, 136-139); id is the
\* next rowid.
NewConsent(rows, f) ==
    LET subject_pseudonym == generate_pseudonym(f.current_user_id, f.secret_key) IN
    [channel |-> f.data.channel,
     created_at |-> f.timestamp,
     id |-> Len(rows) + 1,
     id_policy |-> f.data.id_policy,
     status |-> f.data.status,
     subject_pseudonym |-> subject_pseudonym,
     validation_hash |-> sha256(hash_input(subject_pseudonym, f.data.id_policy,
                                           f.timestamp, f.data.channel, f.data.status))]

\* The statement parameters an IntegrityError on consents prints.
InsertParameters(c) ==
    <<c.subject_pseudonym, ToString(c.id_policy), ToString(c.created_at), c.channel,
      c.validation_hash, c.status>>

\* db.session.add(new_consent); db.session.commit(); refresh; 201 (139-147).
\* A validation_hash already stored violates the UNIQUE constraint: rollback
\* and 500.
create_consent_insert_consent(w) ==
    /\ At(w, "create_consent", "insert_consent")
    /\ LET new_consent == NewConsent(consents, worker[w]) IN
       IF HashTaken(consents, new_consent.validation_hash)
           THEN /\ Finish(w, 500, [error |-> "Erro interno",
                                   parameters |-> InsertParameters(new_consent)])
                /\ UNCHANGED consents
           ELSE /\ consents' = Append(consents, new_consent)
                /\ Finish(w, 201, [consent |-> to_json(new_consent),
                                   message |-> "Consentimento registrado com sucesso!"])
    /\ UNCHANGED <<users_crypto, clock, admitted>>
    /\ UNCHANGED <<chat_vars, policy_vars>>

\* ------------------------------------------------- GET /consents/user/<id>

\* GET /consents/user/<user_id> arrives: decorator and identity check
\* (26-50, 152-154).
get_consents_by_user(w) ==
    LET op == "get_consents_by_user" IN
    \E h \in Headers :
        LET auth == token_required(h) IN
        IF ~auth.ok
            THEN Receive(w, Handler(op, "start", h, NoUser, NoUser, NoBody,
                                    Response(auth.status, Error(auth.error))))
            ELSE \E user_id \in Users :
                Receive(w,
                  IF IdentityMismatch(user_id, auth.current_user_id)
                      THEN Handler(op, "start", Verified, auth.current_user_id, user_id,
                                   NoBody, Response(403, Error("Acesso nao autorizado")))
                      ELSE Handler(op, "get_user", Verified, auth.current_user_id,
                                   user_id, NoBody, NoResponse))

\* user = db.session.get(UserCrypto, user_id) (157-159).
get_consents_by_user_get_user(w) ==
    /\ At(w, "get_consents_by_user", "get_user")
    /\ LET row == users_crypto[worker[w].user_id] IN
       IF ~RowExists(users_crypto, worker[w].user_id) \/ Erased(row)
           THEN Finish(w, 404, Error("Usuario nao encontrado ou ja foi anonimizado"))
           ELSE Continue(w, [worker[w] EXCEPT !.pc = "query", !.secret_key = row])
    /\ UNCHANGED <<users_crypto, consents, clock, admitted>>
    /\ UNCHANGED <<chat_vars, policy_vars>>

\* The rows of a pseudonym, by index.
RowsOf(rows, subject_pseudonym) ==
    { i \in 1..Len(rows) : rows[i].subject_pseudonym = subject_pseudonym }

\* Faulty variant of NewestFirst: the query without order_by.
AnyOrder(rows, idx) ==
    { s \in [1..Cardinality(idx) -> idx] : \A i, j \in DOMAIN s : i # j => s[i] # s[j] }

\* ORDER BY created_at DESC: the orderings a database may return (ties in
\* any order).
NewestFirst(rows, idx) ==
    { s \in [1..Cardinality(idx) -> idx] :
        /\ \A i, j \in DOMAIN s : i # j => s[i] # s[j]
        /\ \A i, j \in DOMAIN s : i < j => rows[s[i]].created_at >= rows[s[j]].created_at }

\* Consents.query...filter_by(subject_pseudonym).order_by(created_at.desc()).all() (161-167).
get_consents_by_user_query(w) ==
    /\ At(w, "get_consents_by_user", "query")
    /\ LET subject_pseudonym == generate_pseudonym(worker[w].user_id, worker[w].secret_key)
           found == RowsOf(consents, subject_pseudonym)
       IN  IF found = {}
               THEN Finish(w, 404, Error("Nenhum consentimento encontrado"))
               ELSE \E s \in NewestFirst(consents, found) :
                       Finish(w, 200, [i \in DOMAIN s |-> to_json(consents[s[i]])])
    /\ UNCHANGED <<users_crypto, consents, clock, admitted>>
    /\ UNCHANGED <<chat_vars, policy_vars>>

\* ------------------------------------------------- GET /consents/policy/<id>

\* GET /consents/policy/<policy_id> arrives.  The view's body is "pass": it
\* returns None, which Flask turns into a 500 response (171-175).  No
\* credential is looked at and no table is read.
get_consents_by_policy(w) ==
    LET op == "get_consents_by_policy" IN
    \E policy_id \in PolicyIds :
        /\ policy_id \in Nat
        /\ Receive(w, Handler(op, "start", Unread, NoUser, NoUser, [policy_id |-> policy_id],
                              Response(500, Error("Internal Server Error"))))

\* ------------------------------------------------- DELETE /users/<id>/forget

\* DELETE /users/<user_id>/forget arrives: decorator and identity check
\* (26-50, 180-182).
forget_user(w) ==
    LET op == "forget_user" IN
    \E h \in Headers :
        LET auth == token_required(h) IN
        IF ~auth.ok
            THEN Receive(w, Handler(op, "start", h, NoUser, NoUser, NoBody,
                                    Response(auth.status, Error(auth.error))))
            ELSE \E user_id \in Users :
                Receive(w,
                  IF IdentityMismatch(user_id, auth.current_user_id)
                      THEN Handler(op, "start", Verified, auth.current_user_id, user_id,
                                   NoBody, Response(403, Error("Acesso nao autorizado")))
                      ELSE Handler(op, "get_user", Verified, auth.current_user_id,
                                   user_id, NoBody, NoResponse))

\* Faulty variant of forget_user_get_user: the update runs whatever the lookup
\* finds.
forget_user_unchecked(w) ==
    /\ At(w, "forget_user", "get_user")
    /\ Goto(w, "update")
    /\ UNCHANGED <<users_crypto, consents, clock, admitted>>
    /\ UNCHANGED <<chat_vars, policy_vars>>

\* user = db.session.get(UserCrypto, user_id) (185-187).
forget_user_get_user(w) ==
    /\ At(w, "forget_user", "get_user")
    /\ LET row == users_crypto[worker[w].user_id] IN
       IF ~RowExists(users_crypto, worker[w].user_id) \/ Erased(row)
           THEN Finish(w, 404, Message("Usuario ja anonimizado ou inexistente"))
           ELSE Goto(w, "update")
    /\ UNCHANGED <<users_crypto, consents, clock, admitted>>
    /\ UNCHANGED <<chat_vars, policy_vars>>

\* What the UPDATE of forget_user leaves in users_crypto: the key is NULL.
Shred(tbl, u) == [tbl EXCEPT ![u] = NULL]

\* Faulty variant of LedgerAfterForget: the forget drops the ledger's rows.
Purge(rows, u) == <<>>

\* What forget_user leaves in consents: it issues no statement on the table.
LedgerAfterForget(rows, u) == rows

\* user.secret_key = None; db.session.commit(); 200 (189-192).
forget_user_update(w) ==
    /\ At(w, "forget_user", "update")
    /\ users_crypto' = Shred(users_crypto, worker[w].user_id)
    /\ consents' = LedgerAfterForget(consents, worker[w].user_id)
    /\ Finish(w, 200, Message("Direito ao Esquecimento aplicado"))
    /\ UNCHANGED <<clock, admitted>>
    /\ UNCHANGED <<chat_vars, policy_vars>>

\* ------------------------------------------------- specification

\* The ledger a request may find: empty after db.create_all(), or as an
\* earlier POST /consents of subject 1 left it.
FirstConsent ==
    NewConsent(<<>>, [Handler("create_consent", "insert_consent", Verified, 1, 1,
                              Body(1, 1, "web", "given"), NoResponse)
                      EXCEPT !.secret_key = "k1", !.timestamp = 0])

Init ==
    /\ \/ users_crypto = [u \in Users |-> NoRow] /\ consents = <<>>
       \/ users_crypto = [u \in Users |-> IF u = 1 THEN "k1" ELSE NoRow]
            /\ consents = <<FirstConsent>>
    /\ worker = [w \in Workers |-> Idle]
    /\ clock = 0
    /\ admitted = 0
    /\ returned = Idle
    /\ session = NoSession
    /\ policies = <<>>
    /\ bucket = {}

Next ==
    \/ \E w \in Workers : create_consent(w)
    \/ \E w \in Workers : create_consent_get_user(w)
    \/ \E w \in Workers : create_consent_insert_user(w)
    \/ \E w \in Workers : create_consent_refresh_user(w)
    \/ \E w \in Workers : create_consent_get_policy(w)
    \/ \E w \in Workers : create_consent_insert_consent(w)
    \/ \E w \in Workers : get_consents_by_user(w)
    \/ \E w \in Workers : get_consents_by_user_get_user(w)
    \/ \E w \in Workers : get_consents_by_user_query(w)
    \/ \E w \in Workers : get_consents_by_policy(w)
    \/ \E w \in Workers : forget_user(w)
    \/ \E w \in Workers : forget_user_get_user(w)
    \/ \E w \in Workers : forget_user_update(w)

Spec == Init /\ [][Next]_vars

\* ------------------------------------------------- properties

\* The request just answered was for view op.
Answered(op) == returned # Idle /\ returned.op = op

\* The body of a POST /consents passed the field check of lines 107-108; the
\* other views take no body.
WellFormed(f) == f.op = "create_consent" => ~Incomplete(f.data)

\* Frame f carries a verified credential of one subject and names another
\* (the condition of lines 111, 153 and 181).
TargetsOther(f) ==
    /\ f # Idle
    /\ f.header = Verified
    /\ WellFormed(f)
    /\ f.user_id # f.current_user_id

\* C1 (Terminality): once a subject's key is absent no step of any request
\* gives the subject a key again; a stored key only ever changes to absent,
\* and never to another key.
Terminality ==
    [][\A u \in Users :
         /\ users_crypto[u] = NULL => users_crypto'[u] = NULL
         /\ users_crypto[u] \in Keys => users_crypto'[u] \in {users_crypto[u], NULL}]_vars

\* A forgotten subject whose owner then posted a consent: the POST read the
\* key record and was turned away, the key is still absent.
TerminalityWitness ==
    /\ Answered("create_consent")
    /\ returned.pc = "get_user"
    /\ returned.resp.status = 403
    /\ users_crypto[returned.current_user_id] = NULL

AuditPreservation ==
    ( /\ Answered("get_consents_by_policy")
      /\ \E u \in Users : users_crypto[u] = NULL
      /\ \E i \in DOMAIN consents : consents[i].id_policy = returned.data.policy_id )
    => /\ returned.resp.status = 200
       /\ "error" \notin DOMAIN returned.resp.body

ErasedRejected ==
    [][\A w \in Workers :
         /\ ( /\ At(w, "create_consent", "get_user") \/ At(w, "create_consent", "refresh_user")
              /\ users_crypto[worker[w].current_user_id] = NULL
              /\ worker'[w] # worker[w] ) =>
               /\ worker'[w] = Idle
               /\ returned'.resp.status = 403
               /\ UNCHANGED <<users_crypto, consents>>
         /\ (worker'[w] # Idle /\ worker'[w].pc \in {"get_policy", "insert_consent"}) =>
               worker'[w].secret_key \in Keys]_vars

\* The owner of a forgotten subject posted a consent naming a policy that is
\* not stored, and was answered 403 (not 404).
ErasedRejectedWitness ==
    /\ Answered("create_consent")
    /\ returned.pc = "get_user"
    /\ returned.resp.status = 403
    /\ returned.data.id_policy \notin StoredPolicies
    /\ users_crypto[returned.current_user_id] = NULL
    /\ Len(consents) = 1

\* C6 (Append-only ledger): every step leaves each stored consent record as it
\* was and in place, only ever adding at the end; the steps of a forget leave
\* the ledger exactly as it was.
AppendOnly ==
    [][/\ Len(consents') >= Len(consents)
       /\ \A i \in DOMAIN consents : consents'[i] = consents[i]
       /\ \A w \in Workers :
            (worker[w] # Idle /\ worker[w].op = "forget_user" /\ worker'[w] # worker[w])
                => consents' = consents]_vars

\* A forget erased a key while the ledger held a record.
AppendOnlyWitness ==
    /\ Answered("forget_user")
    /\ returned.resp.status = 200
    /\ Len(consents) >= 1

\* C7 (Hash invariant): each stored record's validation_hash is the digest of
\* its own pseudonym, policy, created_at, channel and status, and no two stored
\* records share a validation_hash.
HashInvariant ==
    /\ \A i \in DOMAIN consents :
         consents[i].validation_hash =
            sha256(hash_input(consents[i].subject_pseudonym, consents[i].id_policy,
                              consents[i].created_at, consents[i].channel,
                              consents[i].status))
    /\ \A i, j \in DOMAIN consents :
         i # j => consents[i].validation_hash # consents[j].validation_hash

\* Two records are stored, the second just created.
HashInvariantWitness ==
    /\ Answered("create_consent")
    /\ returned.resp.status = 201
    /\ Len(consents) >= 2

\* C8 (Duplicate consent events), as stated: a POST /consents that reaches the
\* insert is answered 201, or, when its event is already stored, 409 with one
\* record of that event stored.  The code answers 500.
DuplicateIs409 ==
    (Answered("create_consent") /\ returned.pc = "insert_consent") =>
        \/ returned.resp.status = 201
        \/ /\ returned.resp.status = 409
           /\ Cardinality({ i \in DOMAIN consents :
                  consents[i].validation_hash =
                      NewConsent(consents, returned).validation_hash }) = 1

\* C9 (Concurrent first writes), as stated: a POST /consents for an unseen
\* subject never fails at the creation of the key; the loser of a race goes on
\* with the winner's key.  The code answers the loser 500.
LoserContinues ==
    ~(Answered("create_consent") /\ returned.pc = "insert_user")

\* C10 (Concurrent forget), as stated: a forget is reported as the one that
\* erased the key (200) only when its update found the key active, so that of
\* several interleaved forgets exactly one is so reported.  Two forgets that
\* both read the active key are both answered 200.
OneForgetErases ==
    [][\A w \in Workers :
         (At(w, "forget_user", "update") /\ worker'[w] = Idle
             /\ returned'.resp.status = 200)
            => users_crypto[worker[w].user_id] \in Keys]_vars

\* C11 (Status precondition), as stated: a POST /consents of the verified
\* owner whose status is neither given nor refused is answered 400, and no
\* stored record has another status.  The code never looks at the value of
\* status: revoked is stored, and the POST answered 201.
StatusPrecondition ==
    /\ ( /\ Answered("create_consent")
         /\ returned.header = Verified
         /\ WellFormed(returned)
         /\ returned.user_id = returned.current_user_id
         /\ returned.data.status \notin {"given", "refused"} )
       => returned.resp.status = 400
    /\ \A i \in DOMAIN consents : consents[i].status \in {"given", "refused"}

\* The credential of header h fails: none, not "Bearer <token>", or a token
\* jwt.decode refuses or that has no user_id to give (lines 31-46).
BadCredential(h) ==
    \/ h.kind \in {"absent", "malformed"}
    \/ /\ h.kind = "bearer"
       /\ h.sig # "good" \/ h.expired \/ "user_id" \notin h.claims

\* C12 (Credential failures), as stated: a request to a protected view with
\* no credential, or an expired, forged, malformed or identity-less one, is
\* answered 401 before the view's body runs.  A signed token without user_id
\* is answered 500.
CredentialFailures ==
    ( /\ returned # Idle
      /\ returned.op \in {"create_consent", "get_consents_by_user", "forget_user"}
      /\ BadCredential(returned.header) )
    => /\ returned.pc = "start"
       /\ returned.resp.status = 401

\* ------------------------------------------------- the decorator alone

\* Every Authorization header over the attributes jwt.decode looks at: a
\* token can only be expired if it has exp, and names an issuer only if it
\* has iss.
Tokens ==
    { Token(sig, expired, claims, uid, iss) :
        sig \in {"good", "bad"}, expired \in BOOLEAN, claims \in SUBSET AllClaims,
        uid \in Users, iss \in {IdP, "other-idp", None} }

Credentials ==
    {NoHeader, BadScheme} \cup
    { t \in Tokens : /\ t.expired => "exp" \in t.claims
                     /\ (t.iss = None) <=> ("iss" \notin t.claims) }

\* decorated(*args, **kwargs) of token_required on header h, up to the call
\* of the view (26-50): the frame holds the header and what the decorator
\* made of it.
decorated(h) ==
    /\ LET auth == token_required(h) IN
       returned' =
          IF auth.ok
              THEN Handler("token_required", "verified", h, auth.current_user_id,
                           NoUser, NoBody, NoResponse)
              ELSE Handler("token_required", "start", h, NoUser, NoUser, NoBody,
                           Response(auth.status, Error(auth.error)))
    /\ UNCHANGED <<users_crypto, consents, worker, clock, admitted>>
    /\ UNCHANGED <<chat_vars, policy_vars>>

NextAuth == \E h \in Credentials : decorated(h)

SpecAuth == Init /\ [][NextAuth]_vars

\* C13 (Issuer), as stated: a token that names another issuer than the
\* identity provider, or none, never yields a claimed subject id.  jwt.decode
\* is called without an issuer: such a token, signed and unexpired, passes.
IssuerChecked ==
    ( /\ returned # Idle
      /\ returned.header.kind = "bearer"
      /\ returned.header.iss # IdP )
    => returned.pc # "verified"

\* The pseudonyms under which the ledger holds records of subject u.
PseudonymsOf(u) ==
    { consents[i].subject_pseudonym : i \in DOMAIN consents } \cap
    { generate_pseudonym(u, k) : k \in Keys }

\* C14 (Key stability): a stored key changes only by being erased; a POST
\* past the key lookup holds the key that was stored for its subject; the
\* record a POST appends carries the pseudonym of its subject under that key,
\* so all records of a subject carry one pseudonym (that of its key while it
\* is active), and records of different subjects never share one.
KeyStability ==
    [][/\ \A u \in Users :
            /\ users_crypto[u] \in Keys => users_crypto'[u] \in {users_crypto[u], NULL}
            /\ Cardinality(PseudonymsOf(u)') <= 1
            /\ users_crypto'[u] \in Keys =>
                 PseudonymsOf(u)' \subseteq {generate_pseudonym(u, users_crypto'[u])}
            /\ \A v \in Users \ {u} : PseudonymsOf(u)' \cap PseudonymsOf(v)' = {}
       /\ \A w \in Workers :
            /\ ( /\ worker'[w] # Idle
                 /\ worker'[w].pc \in {"get_policy", "insert_consent"}
                 /\ users_crypto'[worker'[w].current_user_id] # NULL )
               => worker'[w].secret_key = users_crypto'[worker'[w].current_user_id]
            /\ \A u \in Users :
                 ( /\ At(w, "create_consent", "insert_consent")
                   /\ worker[w].current_user_id = u
                   /\ worker'[w] # worker[w]
                   /\ Len(consents') > Len(consents) )
                 => consents'[Len(consents')].subject_pseudonym \in PseudonymsOf(u)']_vars

\* A second POST of a subject was answered 201 and its record carries the
\* pseudonym of the subject's first record.
KeyStabilityWitness ==
    /\ Answered("create_consent")
    /\ returned.resp.status = 201
    /\ Len(consents) >= 2
    /\ \E i \in DOMAIN consents :
         /\ i < Len(consents)
         /\ consents[i].subject_pseudonym = consents[Len(consents)].subject_pseudonym
    /\ PseudonymsOf(returned.current_user_id) =
          {generate_pseudonym(returned.current_user_id,
                              users_crypto[returned.current_user_id])}

\* C15 (No half-written record): no step of a POST /consents changes the
\* ledger except the one that answers 201; a POST that returns anything else
\* leaves both tables as they were at that step, so a key it created earlier
\* stays; and a POST that finds its subject's key goes on with that very key
\* without writing to users_crypto.
NoHalfWrittenRecord ==
    [][\A w \in Workers :
         /\ ( /\ worker[w] # Idle
              /\ worker[w].op = "create_consent"
              /\ worker'[w] # worker[w]
              /\ ~(worker'[w] = Idle /\ returned'.resp.status = 201) )
            => consents' = consents
         /\ ( /\ worker[w] # Idle
              /\ worker[w].op = "create_consent"
              /\ worker'[w] = Idle
              /\ returned'.resp.status # 201 )
            => users_crypto' = users_crypto
         /\ ( /\ At(w, "create_consent", "get_user")
              /\ users_crypto[worker[w].current_user_id] \in Keys
              /\ worker'[w] # worker[w] )
            => /\ worker'[w] # Idle
               /\ worker'[w].pc = "get_policy"
               /\ worker'[w].secret_key = users_crypto[worker[w].current_user_id]
               /\ users_crypto' = users_crypto]_vars

\* The first request, a POST of a subject never seen naming a policy that is
\* not stored, was answered 404: its key stays, the ledger is still empty.
NoHalfWrittenRecordWitness ==
    /\ Answered("create_consent")
    /\ returned.resp.status = 404
    /\ admitted = 1
    /\ users_crypto[returned.current_user_id] \in Keys
    /\ consents = <<>>

\* C16 (GET /consents/user/<id>): for the verified owner, the lookup goes on
\* with the key when the subject is active and answers 404 when the subject
\* was never seen or is forgotten; the query answers 404 when no record
\* carries the subject's pseudonym, and otherwise 200 with every such record
\* once, as to_json gives it, and no other record, newest first; no step of
\* the view changes a table.
OwnHistory ==
    [][\A w \in Workers : \A u \in Users :
         ( /\ worker[w] # Idle
           /\ worker[w].op = "get_consents_by_user"
           /\ worker[w].user_id = u
           /\ worker'[w] # worker[w] )
         => /\ UNCHANGED <<users_crypto, consents>>
            /\ worker[w].pc = "get_user" =>
                 IF users_crypto[u] \in Keys
                     THEN /\ worker'[w] # Idle
                          /\ worker'[w].pc = "query"
                          /\ worker'[w].secret_key = users_crypto[u]
                     ELSE /\ worker'[w] = Idle
                          /\ returned'.resp.status = 404
            /\ worker[w].pc = "query" =>
                 LET mine == { i \in DOMAIN consents :
                                 consents[i].subject_pseudonym =
                                    generate_pseudonym(u, worker[w].secret_key) }
                 IN  /\ worker'[w] = Idle
                     /\ IF mine = {}
                            THEN returned'.resp.status = 404
                            ELSE /\ returned'.resp.status = 200
                                 /\ Len(returned'.resp.body) = Cardinality(mine)
                                 /\ { returned'.resp.body[n] : n \in DOMAIN returned'.resp.body }
                                       = { to_json(consents[i]) : i \in mine }
                                 /\ \A m, n \in DOMAIN returned'.resp.body :
                                       m < n => returned'.resp.body[m].created_at
                                                  >= returned'.resp.body[n].created_at]_vars

\* The owner got 200 with two records, created at different times.
OwnHistoryWitness ==
    /\ Answered("get_consents_by_user")
    /\ returned.resp.status = 200
    /\ Len(returned.resp.body) = 2
    /\ returned.resp.body[1].created_at > returned.resp.body[2].created_at

\* C17 (GET /consents/policy/<id>), as stated: called without credential, the
\* view answers 200 with the list of the policy's records when the policy is
\* stored and 404 when it is not.  The view returns nothing: 500 either way.
PolicyView ==
    Answered("get_consents_by_policy") =>
        /\ returned.resp.status =
              IF returned.data.policy_id \in StoredPolicies THEN 200 ELSE 404
        /\ returned.data.policy_id \in StoredPolicies =>
              "error" \notin DOMAIN returned.resp.body

\* C18 (Key confidentiality), as stated: no response carries the value of a
\* key generated for a subject.  The 500 of a POST whose key INSERT fails
\* echoes the statement's parameters, the generated key among them.
KeyConfidential ==
    /\ (returned # Idle /\ returned.resp.status = 500
          /\ "parameters" \in DOMAIN returned.resp.body)
       => \A n \in DOMAIN returned.resp.body.parameters :
             returned.resp.body.parameters[n] \notin Keys
    /\ (returned # Idle /\ returned.resp.status = 201)
       => /\ returned.resp.body.consent.subject_pseudonym \notin Keys
          /\ returned.resp.body.consent.validation_hash \notin Keys

\* C19 (Forget versus an in-flight write), as stated: a POST /consents appends
\* a record only while its subject's key is active, so none is committed after
\* the forget.  A POST that read the key before the forget committed appends
\* its record after it.
NoWriteAfterForget ==
    [][\A w \in Workers : \A u \in Users :
         ( /\ At(w, "create_consent", "insert_consent")
           /\ worker[w].current_user_id = u
           /\ worker'[w] # worker[w]
           /\ Len(consents') > Len(consents) )
         => users_crypto[u] \in Keys]_vars

\* C20 (Origin of key records): a key record of subject u appears only by the
\* key INSERT of a POST /consents whose token was verified for u and whose
\* body has the four fields and names u; it then holds a generated key.  No
\* other step, of any view or of a rejected request, makes one appear.
KeyRecordOrigin ==
    [][\A u \in Users :
         (users_crypto[u] = NoRow /\ users_crypto'[u] # NoRow)
         => /\ users_crypto'[u] \in Keys
            /\ \E w \in Workers :
                 /\ At(w, "create_consent", "insert_user")
                 /\ worker'[w] # worker[w]
                 /\ worker[w].header = Verified
                 /\ worker[w].current_user_id = u
                 /\ worker[w].data.fields = AllFields
                 /\ worker[w].data.id_user = u]_vars

\* A POST of a subject never seen, naming a policy that is not stored, has
\* just created the subject's key record.
KeyRecordOriginWitness ==
    \E w \in Workers :
        /\ At(w, "create_consent", "refresh_user")
        /\ worker[w].data.id_policy \notin StoredPolicies
        /\ users_crypto[worker[w].current_user_id] \in Keys
        /\ consents = <<>>


\* ===================================================== smart-chatbot
\* The chatbot is a Flask front end: it keeps the identity in the signed
\* session cookie and relays to the IdP and to the consent API.  A worker's
\* frame holds the Authorization header the view built from the session
\* (header), the session's user id as the view read it (current_user_id),
\* the requested id (user_id) and the JSON body (data).  A frame at
\* "upstream" has sent its request and waits for the answer.

\* POST /auth/mock-login of the IdP (13-35 of mock-idp): a token signed with
\* the shared secret, valid for one hour, for whatever user_id was sent.
mock_login(data) ==
    IF "user_id" \notin data.fields
        THEN Response(400, Error("user_id e obrigatorio para o login simulado"))
        ELSE Response(200, [message |-> "Login simulado com sucesso.",
                            token |-> Token("good", FALSE, AllClaims, data.user_id, IdP),
                            user_id |-> data.user_id])

\* What requests.post to the IdP may give back: the IdP's answer, an answer
\* of a failing IdP, or no answer at all (requests raises RequestException).
IdPAnswers(user_id) ==
    { mock_login([fields |-> {"user_id"}, user_id |-> user_id]),
      Response(500, Error("Internal Server Error")),
      NoResponse }

\* The statuses the consent API answers with (its views and its decorator),
\* and 0 for no answer at all (requests raises RequestException).
ConsentApiStatuses == {0, 200, 201, 400, 401, 403, 404, 500}

\* The answer the chatbot relays: jsonify(resp.json()), resp.status_code.
Relayed == [kind |-> "relayed"]

\* What login leaves in the session (42-43).
LoggedIn(token, user_id) == [jwt_token |-> token, user_id |-> user_id]

\* get_auth_headers (16-21): the bearer header made of the session's token,
\* or none when the session holds no token.
get_auth_headers(s) == IF s.jwt_token = NoToken THEN NoHeader ELSE s.jwt_token

\* Faulty variant of SessionUser: every requested id passes.
AnyUser(s, user_id) == TRUE

\* The identity comparison of the three protected views (71, 87, 103).
SessionUser(s, user_id) == user_id = s.user_id

\* Faulty variant of AfterForget: the session survives the erasure.
SessionKept(s, status) == s

\* The session after the consent API answered a forget (110-111).
AfterForget(s, status) == IF status = 200 THEN NoSession ELSE s

\* POST /api/auth/login arrives (29-38): a missing (or zero) user_id is
\* answered 400; otherwise the IdP is asked for a token.
chatbot_login(w) ==
    LET op == "chatbot.login" IN
    \E user_id \in Users \cup {NoUser} :
        IF user_id = NoUser
            THEN Receive(w, Handler(op, "start", Unread, NoUser, user_id, NoBody,
                                    Response(400, Error("ID de usuario ausente"))))
            ELSE Receive(w, Handler(op, "upstream", Unread, NoUser, user_id, NoBody,
                                    NoResponse))

\* The IdP answers the login (40-48): on 200 the token and the user id go
\* into the session; any other answer leaves the session alone.
chatbot_login_answered(w) ==
    /\ At(w, "chatbot.login", "upstream")
    /\ \E resp \in IdPAnswers(worker[w].user_id) :
          IF resp = NoResponse
              THEN /\ Finish(w, 500, Error("Falha de comunicacao com o IdP"))
                   /\ UNCHANGED session
          ELSE IF resp.status = 200
              THEN /\ session' = LoggedIn(resp.body.token, worker[w].user_id)
                   /\ Finish(w, 200, Message("Identidade confirmada com sucesso"))
              ELSE /\ Finish(w, resp.status,
                             Error("Falha na autenticacao do provedor de identidade"))
                   /\ UNCHANGED session
    /\ UNCHANGED <<consent_vars, policy_vars, admitted>>

\* The gate of the protected views and the request they send: 401 without a
\* token, 403 for another user's id, otherwise the request goes upstream
\* with the header built from the session.
Forward(w, op, user_id, data) ==
    LET headers == get_auth_headers(session) IN
    IF headers = NoHeader
        THEN Receive(w, Handler(op, "start", headers, session.user_id, user_id, NoBody,
                                Response(401, Error("Nao autorizado."))))
    ELSE IF ~SessionUser(session, user_id)
        THEN Receive(w, Handler(op, "start", headers, session.user_id, user_id, data,
                                Response(403, Error("Conflito de identidade detectado."))))
        ELSE Receive(w, Handler(op, "upstream", headers, session.user_id, user_id, data,
                                NoResponse))

\* The consent API answers and the chatbot relays the answer (76-78, 92-94,
\* 113-115); no answer at all is a 500 of the chatbot.
Relay(w, status) ==
    IF status = 0
        THEN Finish(w, 500, Error("Falha de comunicacao com a API de Consentimentos"))
        ELSE Finish(w, status, Relayed)

\* POST /api/consent arrives (62-75).  int(data.get('id_user')) on a body
\* without id_user raises TypeError, which nothing catches: 500.
chatbot_record_consent(w) ==
    LET op == "chatbot.record_consent" IN
    \E data \in Bodies :
        IF get_auth_headers(session) # NoHeader /\ "id_user" \notin data.fields
            THEN Receive(w, Handler(op, "start", get_auth_headers(session),
                                    session.user_id, NoUser, data,
                                    Response(500, Error("Internal Server Error"))))
            ELSE Forward(w, op, data.id_user, data)

chatbot_record_consent_answered(w) ==
    /\ At(w, "chatbot.record_consent", "upstream")
    /\ \E status \in ConsentApiStatuses : Relay(w, status)
    /\ UNCHANGED <<consent_vars, chat_vars, policy_vars, admitted>>

\* GET /api/consent/history/<int:user_id> arrives (81-91).
chatbot_get_history(w) ==
    \E user_id \in Users :
        /\ user_id \in Nat                 \* the <int:user_id> converter
        /\ Forward(w, "chatbot.get_history", user_id, NoBody)

chatbot_get_history_answered(w) ==
    /\ At(w, "chatbot.get_history", "upstream")
    /\ \E status \in ConsentApiStatuses : Relay(w, status)
    /\ UNCHANGED <<consent_vars, chat_vars, policy_vars, admitted>>

\* DELETE /api/consent/forget/<int:user_id> arrives (97-107).
chatbot_forget_user(w) ==
    \E user_id \in Users :
        /\ user_id \in Nat                 \* the <int:user_id> converter
        /\ Forward(w, "chatbot.forget_user", user_id, NoBody)

\* The consent API answers the forget (110-115): a 200 clears the session.
chatbot_forget_user_answered(w) ==
    /\ At(w, "chatbot.forget_user", "upstream")
    /\ \E status \in ConsentApiStatuses :
          /\ Relay(w, status)
          /\ session' = AfterForget(session, status)
    /\ UNCHANGED <<consent_vars, policy_vars, admitted>>

\* The browser has no cookie yet, or the cookie an earlier login of user 1
\* left.
InitChat ==
    /\ users_crypto = [u \in Users |-> NoRow]
    /\ consents = <<>>
    /\ worker = [w \in Workers |-> Idle]
    /\ clock = 0
    /\ admitted = 0
    /\ returned = Idle
    /\ session \in {NoSession, LoggedIn(Token("good", FALSE, AllClaims, 1, IdP), 1)}
    /\ policies = <<>>
    /\ bucket = {}

NextChat ==
    \/ \E w \in Workers : chatbot_login(w)
    \/ \E w \in Workers : chatbot_login_answered(w)
    \/ \E w \in Workers : chatbot_record_consent(w)
    \/ \E w \in Workers : chatbot_record_consent_answered(w)
    \/ \E w \in Workers : chatbot_get_history(w)
    \/ \E w \in Workers : chatbot_get_history_answered(w)
    \/ \E w \in Workers : chatbot_forget_user(w)
    \/ \E w \in Workers : chatbot_forget_user_answered(w)

SpecChat == InitChat /\ [][NextChat]_vars


\* The views of the chatbot that need the session's identity.
Protected == {"chatbot.record_consent", "chatbot.get_history", "chatbot.forget_user"}

\* Frame f is a protected call that the chatbot sent upstream.
Forwarded(f) == f # Idle /\ f.op \in Protected /\ f.pc = "upstream"

\* C21 (Session lifecycle): the step in which the consent API's 200 to a
\* forget is relayed leaves the session empty; any other outcome of a forget
\* leaves the session as it was; while the session is empty every protected
\* call is answered 401 by the step that receives it (none is sent upstream),
\* and the only step that ends the empty session is a login answered 200.
SessionLifecycle ==
    [][/\ ( /\ Forwarded(returned')
            /\ returned'.op = "chatbot.forget_user"
            /\ returned'.resp.status = 200 )
          => session' = NoSession
       /\ ( /\ Forwarded(returned')
            /\ returned'.op = "chatbot.forget_user"
            /\ returned'.resp.status # 200 )
          => session' = session
       /\ (session = NoSession /\ admitted' > admitted) =>
            /\ \A w \in Workers :
                 worker'[w] # worker[w] => worker'[w].op = "chatbot.login"
            /\ (returned' # Idle /\ returned'.op \in Protected)
                 => returned'.resp.status = 401
       /\ (session = NoSession /\ session' # NoSession) =>
            /\ returned' # Idle
            /\ returned'.op = "chatbot.login"
            /\ returned'.resp.status = 200]_vars

\* The consent API answered a forget 200, the chatbot relayed it and the
\* session is now empty.
SessionLifecycleWitness ==
    /\ Forwarded(returned)
    /\ returned.op = "chatbot.forget_user"
    /\ returned.header.kind = "bearer"
    /\ returned.resp.status = 200
    /\ session = NoSession

\* C22 (Chatbot gate): a protected call goes upstream only from a session
\* that holds a token and whose user id is the requested one, and the request
\* sent carries that token as bearer credential; a protected call received
\* without a token is answered 401 and one for another user's id 403, both by
\* the step that receives them, with nothing sent upstream.
ChatbotGate ==
    [][/\ \A w \in Workers :
            (worker'[w] # worker[w] /\ Forwarded(worker'[w])) =>
                /\ session.jwt_token # NoToken
                /\ worker'[w].user_id = session.user_id
                /\ worker'[w].header = session.jwt_token
                /\ worker'[w].header.kind = "bearer"
       /\ (admitted' > admitted /\ returned' # Idle /\ returned'.op \in Protected) =>
            /\ worker' = worker
            /\ session.jwt_token = NoToken => returned'.resp.status = 401
            /\ ( /\ session.jwt_token # NoToken
                 /\ returned'.user_id \in Users \ {session.user_id} )
               => returned'.resp.status = 403]_vars

\* A consent write of the session's user is on its way to the consent API
\* with the session's token while a forget for another user's id has just
\* been answered 403.
ChatbotGateWitness ==
    /\ \E w \in Workers :
          /\ Forwarded(worker[w])
          /\ worker[w].op = "chatbot.record_consent"
          /\ worker[w].header = session.jwt_token
          /\ worker[w].data.id_user = session.user_id
    /\ returned # Idle
    /\ returned.op = "chatbot.forget_user"
    /\ returned.user_id # session.user_id
    /\ returned.resp.status = 403


\* ===================================================== api-politicas
\* POST /policies stores a document in the bucket and its metadata in table
\* policies.  A frame's data is the multipart form: the parts present
\* (fields), the file's content and name, and the version.  published_at and
\* description take no part in what follows and are left out of the rows.

Contents == {"c1", "c2"}                \* file contents an upload may carry
Versions == {"1.0.0", "1.1.0"}          \* version strings an upload may carry
FormParts == {"file", "version"}

Upload(content, version, parts) ==
    [content |-> content, fields |-> parts, filename |-> "policy.pdf",
     version |-> version]
Uploads ==
    { Upload(c, v, FormParts) : c \in Contents, v \in Versions } \cup
    { Upload("c1", "1.0.0", parts) : parts \in {{"file"}, {"version"}} }

BucketUrl == "http://minio/politicas/"

\* object_name and s3_url of an upload (94, 111).
object_name(data) == sha256(data.content) \o "-" \o data.filename
s3_url(data) == BucketUrl \o object_name(data)

\* Policies.query.filter_by(hash_sha256=h).first(): the row, if any.
Existing(rows, h) == { i \in DOMAIN rows : rows[i].hash_sha256 = h }

\* The row INSERT INTO policies adds for an upload (114-121).
NewPolicy(rows, data) ==
    [hash_sha256 |-> sha256(data.content), id |-> Len(rows) + 1,
     s3_url |-> s3_url(data), version |-> data.version]

\* POST /policies arrives (62-85): the form is validated, the file read and
\* hashed.  Nothing shared is read before the query of line 88.
create_policy(w) ==
    LET op == "create_policy" IN
    \E data \in Uploads :
        IF "file" \notin data.fields
            THEN Receive(w, Handler(op, "start", Unread, NoUser, NoUser, data,
                                    Response(400, Error("Nenhum arquivo enviado"))))
        ELSE IF "version" \notin data.fields
            THEN Receive(w, Handler(op, "start", Unread, NoUser, NoUser, data,
                                    Response(400, Error("Campos 'file' e 'version' sao obrigatorios"))))
            ELSE Receive(w, Handler(op, "find_existing", Unread, NoUser, NoUser, data,
                                    NoResponse))

\* existing = Policies.query.filter_by(hash_sha256=...).first() (88-90).
create_policy_find_existing(w) ==
    /\ At(w, "create_policy", "find_existing")
    /\ LET found == Existing(policies, sha256(worker[w].data.content)) IN
       IF found # {}
           THEN Finish(w, 409,
                       [error |-> "Uma politica com este mesmo conteudo (hash) ja existe",
                        policy |-> policies[CHOOSE i \in found : TRUE]])
           ELSE Goto(w, "upload")
    /\ UNCHANGED <<consent_vars, chat_vars, policy_vars, admitted>>

\* s3_client.upload_fileobj (94-111): the object is written under its name,
\* or the client has no credentials (125-126).
create_policy_upload(w) ==
    /\ At(w, "create_policy", "upload")
    /\ \/ /\ bucket' = bucket \cup {object_name(worker[w].data)}
          /\ Goto(w, "insert_policy")
       \/ /\ Finish(w, 500, Error("Credenciais do S3 nao configuradas"))
          /\ UNCHANGED bucket
    /\ UNCHANGED <<consent_vars, chat_vars, policies, admitted>>

\* INSERT INTO policies and COMMIT (114-123).  The UNIQUE constraint on
\* hash_sha256 (43) refuses a second row of one hash: IntegrityError, caught
\* by `except Exception`, rolled back and answered 500 (127-130).
create_policy_insert_policy(w) ==
    /\ At(w, "create_policy", "insert_policy")
    /\ LET new_policy == NewPolicy(policies, worker[w].data) IN
       IF Existing(policies, new_policy.hash_sha256) # {}
           THEN /\ Finish(w, 500, Error("Erro interno"))
                /\ UNCHANGED policies
           ELSE /\ policies' = Append(policies, new_policy)
                /\ Finish(w, 201, [message |-> "Politica criada com sucesso!",
                                   policy |-> new_policy])
    /\ UNCHANGED <<consent_vars, chat_vars, bucket, admitted>>

\* The table is empty, or holds the policy an earlier upload of content c1
\* left.
FirstPolicy == NewPolicy(<<>>, Upload("c1", "1.0.0", FormParts))

InitPolicies ==
    /\ users_crypto = [u \in Users |-> NoRow]
    /\ consents = <<>>
    /\ worker = [w \in Workers |-> Idle]
    /\ clock = 0
    /\ admitted = 0
    /\ returned = Idle
    /\ session = NoSession
    /\ \/ policies = <<>> /\ bucket = {}
       \/ /\ policies = <<FirstPolicy>>
          /\ bucket = {object_name(Upload("c1", "1.0.0", FormParts))}

NextPolicies ==
    \/ \E w \in Workers : create_policy(w)
    \/ \E w \in Workers : create_policy_find_existing(w)
    \/ \E w \in Workers : create_policy_upload(w)
    \/ \E w \in Workers : create_policy_insert_policy(w)

SpecPolicies == InitPolicies /\ [][NextPolicies]_vars

\* No two stored policies share a hash.
UniqueHashes ==
    \A i, j \in DOMAIN policies :
        policies[i].hash_sha256 = policies[j].hash_sha256 => i = j

\* C23 (Content deduplication), as stated: no two stored policies share a
\* hash_sha256, and an upload that got as far as the lookup of its hash is
\* answered, when the database answers it, 201 or, its content being stored
\* already, 409.  The code answers the loser of two concurrent uploads of one
\* content 500.
PolicyDuplicateIs409 ==
    /\ UniqueHashes
    /\ ( /\ Answered("create_policy")
         /\ returned.pc \in {"find_existing", "insert_policy"} )
       => \/ returned.resp.status = 201
          \/ /\ returned.resp.status = 409
             /\ Existing(policies, sha256(returned.data.content)) # {}

====
